---------------------------- MODULE Spec2Model ----------------------------
(***************************************************************************)
(* The data pipeline of the client/property dashboard: DataLoader          *)
(* (src/js/data-loader.js) with its year cache, its geocode cache, the     *)
(* durable storage entry behind it, the external geocoding service and     *)
(* the per-year loads that loadAllYearsData runs concurrently.             *)
(*                                                                         *)
(* JavaScript runs one event at a time.  An action of this model is one    *)
(* event of the event loop (a call by the page, a fetch that has failed    *)
(* or delivered its body, a geocoder callback) together with everything    *)
(* the code runs before it has to wait for the next event.                 *)
(*                                                                         *)
(* A JavaScript string is a sequence of one-character strings.             *)
(*                                                                         *)
(* Specifications:                                                         *)
(*   Spec           one page load, the DataLoader called directly          *)
(*   SpecReload     several page loads over one storage, single years      *)
(*   SpecDash       the Dashboard (src/js/maps.js) driven by its controls  *)
(*   SpecDashReset  the Dashboard with showInitialState() and reset()      *)
(*                  called during a load, single years                     *)
(*   SpecDashFair   SpecDash where every fetch and lookup settles          *)
(*   SpecRows       one year's load over a wide choice of rows             *)
(*   SpecStats      generateAnalytics over a choice of record sets         *)
(*   SpecMaps       the MapsManager's all-years view                       *)
(***************************************************************************)
EXTENDS Integers, Sequences, FiniteSets, TLC

(***************************************************************************)
(* Bounds of the model.                                                    *)
(***************************************************************************)
\* top-level calls (loadYearData / loadAllYearsData) the page makes
MaxOps == 2
\* clearCache calls
MaxClears == 1
\* page reloads (each constructs a new DataLoader)
MaxReloads == 1

(***************************************************************************)
(* JavaScript values.                                                      *)
(***************************************************************************)
\* a value that is undefined, a boolean or a string
JUndef == [t |-> "undefined", b |-> FALSE, s |-> <<>>]
JBool(x) == [t |-> "boolean", b |-> x, s |-> <<>>]
JStr(x) == [t |-> "string", b |-> FALSE, s |-> x]

\* ToBoolean
Truthy(v) == \/ v.t = "boolean" /\ v.b
             \/ v.t = "string" /\ v.s # <<>>

\* a && b, with b already evaluated (b has no effect in the places it is used)
JAnd(a, b) == IF Truthy(a) THEN b ELSE a

\* null, or an object {lat, lng} (degrees times 10000)
NullCoords == [some |-> FALSE, lat |-> 0, lng |-> 0]
Coords(la, ln) == [some |-> TRUE, lat |-> la, lng |-> ln]

(***************************************************************************)
(* Strings.                                                                *)
(***************************************************************************)
UpperCase == <<"A", "B", "C", "D", "E", "F", "G", "H", "I", "J", "K", "L", "M",
               "N", "O", "P", "Q", "R", "S", "T", "U", "V", "W", "X", "Y", "Z">>
LowerCase == <<"a", "b", "c", "d", "e", "f", "g", "h", "i", "j", "k", "l", "m",
               "n", "o", "p", "q", "r", "s", "t", "u", "v", "w", "x", "y", "z">>

IsSpace(c) == c \in {" ", "\n", "\t"}

toLowerCase(s) ==
    [i \in 1..Len(s) |->
        IF \E k \in 1..Len(UpperCase) : UpperCase[k] = s[i]
        THEN LowerCase[CHOOSE k \in 1..Len(UpperCase) : UpperCase[k] = s[i]]
        ELSE s[i]]

toUpperCase(s) ==
    [i \in 1..Len(s) |->
        IF \E k \in 1..Len(LowerCase) : LowerCase[k] = s[i]
        THEN UpperCase[CHOOSE k \in 1..Len(LowerCase) : LowerCase[k] = s[i]]
        ELSE s[i]]

\* String.prototype.includes
includes(s, key) ==
    \E i \in 0..(Len(s) - Len(key)) : SubSeq(s, i + 1, i + Len(key)) = key

\* String.prototype.trim
trim(s) ==
    IF \A i \in 1..Len(s) : IsSpace(s[i]) THEN <<>>
    ELSE LET first == CHOOSE i \in 1..Len(s) :
                        /\ ~IsSpace(s[i])
                        /\ \A j \in 1..(i - 1) : IsSpace(s[j])
             last == CHOOSE i \in 1..Len(s) :
                        /\ ~IsSpace(s[i])
                        /\ \A j \in (i + 1)..Len(s) : IsSpace(s[j])
         IN SubSeq(s, first, last)

\* s.replace(/\n/g, ', ')
RECURSIVE ReplaceNewlines(_)
ReplaceNewlines(s) ==
    IF s = <<>> THEN <<>>
    ELSE IF Head(s) = "\n" THEN <<",", " ">> \o ReplaceNewlines(Tail(s))
    ELSE <<Head(s)>> \o ReplaceNewlines(Tail(s))

\* the first position after p that holds no white space (Len(s) + 1 if none)
SkipSpace(s, p) ==
    CHOOSE j \in (p + 1)..(Len(s) + 1) :
        /\ \A k \in (p + 1)..(j - 1) : IsSpace(s[k])
        /\ j <= Len(s) => ~IsSpace(s[j])

\* s.replace(/,\s*,/g, ','): matches are found left to right and do not overlap
RECURSIVE CollapseCommas(_)
CollapseCommas(s) ==
    IF s = <<>> THEN <<>>
    ELSE LET j == SkipSpace(s, 1)
         IN IF Head(s) = "," /\ j <= Len(s) /\ s[j] = ","
            THEN <<",">> \o CollapseCommas(SubSeq(s, j + 1, Len(s)))
            ELSE <<Head(s)>> \o CollapseCommas(Tail(s))

\* s.replace(/,\s*$/, '')
StripTrailingComma(s) ==
    IF \E p \in 1..Len(s) : s[p] = "," /\ SkipSpace(s, p) = Len(s) + 1
    THEN LET p == CHOOSE q \in 1..Len(s) :
                    s[q] = "," /\ SkipSpace(s, q) = Len(s) + 1
         IN SubSeq(s, 1, p - 1)
    ELSE s

\* cleanAddress(address), address a string or undefined
cleanAddress(address) ==
    IF ~Truthy(address) THEN <<>>
    ELSE StripTrailingComma(CollapseCommas(ReplaceNewlines(trim(address.s))))

\* the keys of stateMap, in the order Object.entries lists them
StateKeys == <<"NSW", "QLD", "VIC", "SA", "WA", "TAS", "NT", "ACT">>
StateChars == << <<"N", "S", "W">>, <<"Q", "L", "D">>, <<"V", "I", "C">>,
                 <<"S", "A">>, <<"W", "A">>, <<"T", "A", "S">>, <<"N", "T">>,
                 <<"A", "C", "T">> >>
SingaporeChars == <<"s", "i", "n", "g", "a", "p", "o", "r", "e">>
DubaiChars == <<"d", "u", "b", "a", "i">>

\* the position of the first occurrence of key in s (0 when there is none)
IndexOf(s, key) ==
    IF includes(s, key)
    THEN CHOOSE i \in 1..Len(s) :
            /\ SubSeq(s, i, i + Len(key) - 1) = key
            /\ \A j \in 1..(i - 1) : SubSeq(s, j, j + Len(key) - 1) # key
    ELSE 0

\* (mutant) the state whose key comes first in the text is returned
MutExtractStateFirstInText(address) ==
    IF ~Truthy(address) THEN "Unknown"
    ELSE IF \E k \in 1..Len(StateKeys) : includes(toUpperCase(address.s), StateChars[k])
    THEN StateKeys[CHOOSE k \in 1..Len(StateKeys) :
            /\ includes(toUpperCase(address.s), StateChars[k])
            /\ \A j \in 1..Len(StateKeys) :
                  includes(toUpperCase(address.s), StateChars[j]) =>
                      \/ IndexOf(toUpperCase(address.s), StateChars[k])
                            < IndexOf(toUpperCase(address.s), StateChars[j])
                      \/ /\ IndexOf(toUpperCase(address.s), StateChars[k])
                              = IndexOf(toUpperCase(address.s), StateChars[j])
                         /\ k <= j]
    ELSE IF includes(toLowerCase(address.s), SingaporeChars) THEN "Singapore"
    ELSE IF includes(toLowerCase(address.s), DubaiChars) THEN "Dubai"
    ELSE "Unknown"

\* extractState(address), address a string or undefined
extractState(address) ==
    IF ~Truthy(address) THEN "Unknown"
    ELSE IF \E k \in 1..Len(StateKeys) : includes(toUpperCase(address.s), StateChars[k])
    THEN StateKeys[CHOOSE k \in 1..Len(StateKeys) :
            /\ includes(toUpperCase(address.s), StateChars[k])
            /\ \A j \in 1..(k - 1) : ~includes(toUpperCase(address.s), StateChars[j])]
    ELSE IF includes(toLowerCase(address.s), SingaporeChars) THEN "Singapore"
    ELSE IF includes(toLowerCase(address.s), DubaiChars) THEN "Dubai"
    ELSE "Unknown"

\* (mutant) a record with a property address only gets a type of its own
MutDisplayPropertyOnly(hasClientAddress, hasPropertyAddress) ==
    IF Truthy(hasClientAddress) /\ Truthy(hasPropertyAddress) THEN "both"
    ELSE IF Truthy(hasClientAddress) /\ ~Truthy(hasPropertyAddress) THEN "client-only"
    ELSE IF Truthy(hasPropertyAddress) THEN "property-only"
    ELSE "skip"

determineMapDisplayType(hasClientAddress, hasPropertyAddress) ==
    IF Truthy(hasClientAddress) /\ Truthy(hasPropertyAddress) THEN "both"
    ELSE IF Truthy(hasClientAddress) /\ ~Truthy(hasPropertyAddress) THEN "client-only"
    ELSE "skip"

\* this.fallbackCoords[state] || this.fallbackCoords['Unknown']
fallbackCoords(state) ==
    CASE state = "NSW" -> Coords(-338688, 1512093)
      [] state = "QLD" -> Coords(-274698, 1530251)
      [] state = "VIC" -> Coords(-378136, 1449631)
      [] state = "SA" -> Coords(-349285, 1386007)
      [] state = "WA" -> Coords(-319505, 1158605)
      [] state = "TAS" -> Coords(-428821, 1473272)
      [] state = "NT" -> Coords(-124634, 1308456)
      [] state = "ACT" -> Coords(-352809, 1491300)
      [] state = "Singapore" -> Coords(13521, 1038198)
      [] state = "Dubai" -> Coords(252048, 552708)
      [] OTHER -> Coords(-252744, 1337751)

(***************************************************************************)
(* The rows of a year's file, as parseCSV hands them to processData.  A    *)
(* row has the four columns the pipeline's logic reads; the other four     *)
(* (Date Signed, Date of Purchase, Email, Notes) are copied through.       *)
(***************************************************************************)
\* the years of loadAllYearsData, in its order
Years == <<"2022", "2023", "2024", "2025">>
YearSet == {Years[k] : k \in 1..Len(Years)}
YearIndex(y) == CHOOSE k \in 1..Len(Years) : Years[k] = y

Row(n, a, p) == [Name |-> n, Address |-> a, Property |-> p, Service |-> JUndef]

NoAddressInContract ==
    <<"N", "o", " ", "a", "d", "d", "r", "e", "s", "s", " ", "i", "n", " ",
      "c", "o", "n", "t", "r", "a", "c", "t">>
UnknownChars == <<"U", "n", "k", "n", "o", "w", "n">>

\* a client in SA who bought at the same address
RowSame == Row(JStr(<<"a">>), JStr(<<"s", "a">>), JStr(<<"s", "a">>))
\* a client in SA (in capitals) who bought in the NT
RowInter == Row(JStr(<<"c">>), JStr(<<"S", "A">>), JStr(<<"n", "t">>))
\* address fields that hold commas only
RowComma == Row(JStr(<<"d">>), JStr(<<",">>), JStr(<<",", " ", ",">>))
\* no name: the row is dropped
RowNoName == Row(JStr(<<" ">>), JStr(<<"s", "a">>), JUndef)
\* the sentinel of an absent client address
RowSentinel == Row(JStr(<<"e">>), JStr(NoAddressInContract), JStr(<<"n", "t">>))
\* a name and no address at all
RowBare == Row(JStr(<<"f">>), JUndef, JStr(<<" ">>))

\* the files the server may hold for each year
FilesOf(y) ==
    CASE y = "2022" -> { <<RowComma, RowSame>> }
      [] y = "2023" -> { <<RowSentinel, RowInter>> }
      [] y = "2024" -> { <<RowNoName, RowBare>> }
      [] OTHER -> { <<>> }

(***************************************************************************)
(* processData: the synchronous part (filter and map).                     *)
(***************************************************************************)
\* row.Address && row.Address.trim() && row.Address !== 'No address in contract'
hasClientAddress(row) ==
    JAnd(JAnd(row.Address, JStr(trim(row.Address.s))),
         JBool(row.Address.s # NoAddressInContract))

\* row['Property Purchased'] && row['Property Purchased'].trim()
hasPropertyAddress(row) ==
    JAnd(row.Property, JStr(trim(row.Property.s)))

\* x?.trim() || 'Unknown'
TrimOrUnknown(v) ==
    IF v.t = "string" /\ trim(v.s) # <<>> THEN trim(v.s) ELSE UnknownChars

\* (mutant) the record is built without the year
MutCleanRecordNoYear(row, year) ==
    [name |-> TrimOrUnknown(row.Name),
     clientAddress |-> IF Truthy(hasClientAddress(row))
                       THEN cleanAddress(row.Address) ELSE <<>>,
     propertyAddress |-> IF Truthy(hasPropertyAddress(row))
                         THEN cleanAddress(row.Property) ELSE <<>>,
     serviceType |-> TrimOrUnknown(row.Service),
     clientState |-> IF Truthy(hasClientAddress(row))
                     THEN extractState(row.Address) ELSE "Unknown",
     propertyState |-> IF Truthy(hasPropertyAddress(row))
                       THEN extractState(row.Property) ELSE "Unknown",
     hasClientLocation |-> hasClientAddress(row),
     hasPropertyLocation |-> hasPropertyAddress(row),
     mapDisplayType |-> determineMapDisplayType(hasClientAddress(row),
                                                hasPropertyAddress(row)),
     year |-> ""]

\* the record the map callback builds for one row
CleanRecord(row, year) ==
    [name |-> TrimOrUnknown(row.Name),
     clientAddress |-> IF Truthy(hasClientAddress(row))
                       THEN cleanAddress(row.Address) ELSE <<>>,
     propertyAddress |-> IF Truthy(hasPropertyAddress(row))
                         THEN cleanAddress(row.Property) ELSE <<>>,
     serviceType |-> TrimOrUnknown(row.Service),
     clientState |-> IF Truthy(hasClientAddress(row))
                     THEN extractState(row.Address) ELSE "Unknown",
     propertyState |-> IF Truthy(hasPropertyAddress(row))
                       THEN extractState(row.Property) ELSE "Unknown",
     hasClientLocation |-> hasClientAddress(row),
     hasPropertyLocation |-> hasPropertyAddress(row),
     mapDisplayType |-> determineMapDisplayType(hasClientAddress(row),
                                                hasPropertyAddress(row)),
     year |-> year]

\* (mutant) the name is not trimmed before it is tested
MutKeepRowNoTrim(row) == Truthy(row.Name)

\* rawData.filter(row => row.Name && row.Name.trim())
KeepRow(row) == Truthy(JAnd(row.Name, JStr(trim(row.Name.s))))

RECURSIVE CleanedData(_, _)
CleanedData(rawData, year) ==
    IF rawData = <<>> THEN <<>>
    ELSE IF KeepRow(Head(rawData))
    THEN <<CleanRecord(Head(rawData), year)>> \o CleanedData(Tail(rawData), year)
    ELSE CleanedData(Tail(rawData), year)

(***************************************************************************)
(* Maps (the year cache, the geocode cache) and the durable storage entry. *)
(***************************************************************************)
EmptyMap == [k \in {} |-> NullCoords]
Put(m, k, v) == [z \in DOMAIN m \cup {k} |-> IF z = k THEN v ELSE m[z]]

\* JSON.stringify([...map]): the entries [key, value]
Stringify(m) == {<<k, m[k]>> : k \in DOMAIN m}
\* new Map(JSON.parse(text))
MapOfEntries(entries) ==
    [k \in {e[1] : e \in entries} |-> (CHOOSE e \in entries : e[1] = k)[2]]

NoItem == [kind |-> "absent", entries |-> {}]
CorruptItem == [kind |-> "corrupt", entries |-> {}]

\* (mutant) an item that cannot be parsed is taken for an entry without a key
MutLoadUnparsedAsEntry(item) ==
    IF item.kind = "entries" THEN MapOfEntries(item.entries)
    ELSE IF item.kind = "corrupt" THEN Put(EmptyMap, <<>>, NullCoords)
    ELSE EmptyMap

\* loadGeocodeCache(): an absent item gives a new Map, and so does one that
\* cannot be read or parsed (the exception of getItem or JSON.parse is caught)
loadGeocodeCache(item) ==
    IF item.kind = "entries" THEN MapOfEntries(item.entries) ELSE EmptyMap

\* (mutant) the keys without a coordinate are left out of the item
MutSaveOmitsNull(item, map, works) ==
    IF works
    THEN [kind |-> "entries",
          entries |-> {e \in Stringify(map) : e[2].some}]
    ELSE item

\* saveGeocodeCache(): the item after it; a setItem that throws is only logged
saveGeocodeCache(item, map, works) ==
    IF works THEN [kind |-> "entries", entries |-> Stringify(map)] ELSE item

(***************************************************************************)
(* The external geocoding service.                                         *)
(***************************************************************************)
\* window.google is missing, is there without google.maps.Geocoder, or is ready
GoogleStates == {"absent", "partial", "ready"}

\* the coordinate the service knows for an address (it ignores case)
ServiceCoords(address) == Coords(100 + Len(address), 200 + Len(address))

\* what the callback resolves the promise with (status OK and a result, or not)
CallbackResult(address, ok) == IF ok THEN ServiceCoords(address) ELSE NullCoords

(***************************************************************************)
(* geocodeAddress up to its await, and addGeocoding's loop.                *)
(***************************************************************************)
\* the part of geocodeAddress that runs at once: null, a cache hit, an
\* exception of the Geocoder constructor (caught: null), or a request sent
GeocodeSync(address, gc, g) ==
    IF address = <<>> \/ g = "absent"
    THEN [kind |-> "null", value |-> NullCoords]
    ELSE IF toLowerCase(address) \in DOMAIN gc
    THEN [kind |-> "hit", value |-> gc[toLowerCase(address)]]
    ELSE IF g = "partial"
    THEN [kind |-> "throw", value |-> NullCoords]
    ELSE [kind |-> "ext", value |-> NullCoords]

\* one loadYearData call: where it waits, and addGeocoding's locals
IdleTask ==
    [pc |-> "idle", rows |-> <<>>, i |-> 1, field |-> "client",
     cc |-> NullCoords, out |-> <<>>, log |-> <<>>]

Settled(t) == t.pc \in {"ok", "err"}

\* the guard of the lookup the loop is at (client, then property, of row i)
WantsLookup(t) ==
    IF t.field = "client"
    THEN Truthy(t.rows[t.i].hasClientLocation) /\ t.rows[t.i].clientAddress # <<>>
    ELSE Truthy(t.rows[t.i].hasPropertyLocation) /\ t.rows[t.i].propertyAddress # <<>>

LookupAddress(t) ==
    IF t.field = "client" THEN t.rows[t.i].clientAddress
    ELSE t.rows[t.i].propertyAddress

LookupState(t) ==
    IF t.field = "client" THEN t.rows[t.i].clientState
    ELSE t.rows[t.i].propertyState

\* v || this.fallbackCoords[state] || this.fallbackCoords['Unknown']
OrFallback(v, state) == IF v.some THEN v ELSE fallbackCoords(state)

\* (mutant) isInterstate compares the two states only
MutGeocodedStatesDiffer(row, clientCoords, propertyCoords) ==
    [name |-> row.name, clientAddress |-> row.clientAddress,
     propertyAddress |-> row.propertyAddress, serviceType |-> row.serviceType,
     clientState |-> row.clientState, propertyState |-> row.propertyState,
     hasClientLocation |-> row.hasClientLocation,
     hasPropertyLocation |-> row.hasPropertyLocation,
     mapDisplayType |-> row.mapDisplayType, year |-> row.year,
     clientCoords |-> clientCoords, propertyCoords |-> propertyCoords,
     isInterstate |-> row.clientState # row.propertyState]

\* geocodedData.push({...row, clientCoords, propertyCoords, isInterstate})
Geocoded(row, clientCoords, propertyCoords) ==
    [name |-> row.name, clientAddress |-> row.clientAddress,
     propertyAddress |-> row.propertyAddress, serviceType |-> row.serviceType,
     clientState |-> row.clientState, propertyState |-> row.propertyState,
     hasClientLocation |-> row.hasClientLocation,
     hasPropertyLocation |-> row.hasPropertyLocation,
     mapDisplayType |-> row.mapDisplayType, year |-> row.year,
     clientCoords |-> clientCoords, propertyCoords |-> propertyCoords,
     isInterstate |-> /\ row.clientState # "Unknown"
                      /\ row.propertyState # "Unknown"
                      /\ row.clientState # row.propertyState]

\* the loop after the lookup it is at has given coords (null when not made)
AfterLookup(t, coords) ==
    IF t.field = "client"
    THEN [t EXCEPT !.cc = coords, !.field = "property"]
    ELSE [t EXCEPT !.out = Append(@, Geocoded(t.rows[t.i], t.cc, coords)),
                   !.i = @ + 1, !.field = "client", !.cc = NullCoords]

\* the log of a task's geocodeAddress calls: one entry a call, open until it
\* returns; known/expect tell what had been resolved for the key at the call
OpenEntry(t, res) ==
    [i |-> t.i, field |-> t.field, key |-> toLowerCase(LookupAddress(t)),
     known |-> toLowerCase(LookupAddress(t)) \in DOMAIN res,
     expect |-> IF toLowerCase(LookupAddress(t)) \in DOMAIN res
                THEN res[toLowerCase(LookupAddress(t))] ELSE NullCoords,
     open |-> TRUE, ext |-> FALSE, ret |-> NullCoords]

CloseEntry(t, ext, ret, avail) ==
    [t EXCEPT !.log[Len(t.log)] =
        [@ EXCEPT !.open = FALSE, !.ext = ext, !.ret = ret,
                  !.known = @ /\ avail]]

\* addGeocoding from where task t stands to its next wait or its end
RECURSIVE RunRows(_, _, _, _)
RunRows(t, gc, g, res) ==
    IF t.i > Len(t.rows) THEN [t EXCEPT !.pc = "ok"]
    ELSE IF ~WantsLookup(t) THEN RunRows(AfterLookup(t, NullCoords), gc, g, res)
    ELSE LET r == GeocodeSync(LookupAddress(t), gc, g)
             started == [t EXCEPT !.log = Append(@, OpenEntry(t, res))]
         IN IF r.kind = "ext" THEN [started EXCEPT !.pc = "geo"]
            ELSE RunRows(AfterLookup(CloseEntry(started, FALSE, r.value, g = "ready"),
                                     OrFallback(r.value, LookupState(t))),
                         gc, g, res)

\* (mutant) the client and the property lookup of a row are sent together
MutRequestsBoth(y, t) ==
    IF t.pc = "geo"
    THEN {[y |-> y, i |-> t.i, field |-> t.field, address |-> LookupAddress(t)]}
         \cup (IF /\ t.field = "client"
                  /\ Truthy(t.rows[t.i].hasPropertyLocation)
                  /\ t.rows[t.i].propertyAddress # <<>>
               THEN {[y |-> y, i |-> t.i, field |-> "property",
                      address |-> t.rows[t.i].propertyAddress]}
               ELSE {})
    ELSE {}

\* the requests a task has sent to the service when it waits
Requests(y, t) ==
    IF t.pc = "geo"
    THEN {[y |-> y, i |-> t.i, field |-> t.field, address |-> LookupAddress(t)]}
    ELSE {}

(***************************************************************************)
(* loadAllYearsData's two branches for one year.                           *)
(***************************************************************************)
\* yearData.map(record => ({...record, year: year}))
RECURSIVE Stamp(_, _)
Stamp(data, year) ==
    IF data = <<>> THEN <<>>
    ELSE <<[Head(data) EXCEPT !.year = year]>> \o Stamp(Tail(data), year)

NoData == [combined |-> <<>>, byYear |-> EmptyMap]

\* (mutant) combined is assigned, not appended to
MutThenYearAssigns(ad, y, data) ==
    [combined |-> Stamp(data, y), byYear |-> Put(ad.byYear, y, data)]

\* the try branch: byYear[year] = yearData; combined.push(...dataWithYear)
ThenYear(ad, y, data) ==
    [combined |-> ad.combined \o Stamp(data, y), byYear |-> Put(ad.byYear, y, data)]

\* (mutant) the catch branch leaves byYear without the year
MutCatchYearNoEntry(ad, y) == ad

\* the catch branch: byYear[year] = []
CatchYear(ad, y) == [ad EXCEPT !.byYear = Put(@, y, <<>>)]

\* (mutant) the year cache is never consulted
MutCacheHasNever(c, y) == FALSE

\* loadYearData: this.cache.has(year)
CacheHas(c, y) == y \in DOMAIN c

\* loadYearData up to its first await: the cached sequence, or a fetch sent
StartTask(c, y) ==
    IF CacheHas(c, y) THEN [IdleTask EXCEPT !.pc = "ok", !.out = c[y]]
    ELSE [IdleTask EXCEPT !.pc = "fetch"]

\* (mutant) a failed load caches what it has
MutCacheOnSettleAlways(c, y, t) == Put(c, y, t.out)

\* the year cache once a fetching loadYearData has returned or thrown
CacheOnSettle(c, y, t) == IF t.pc = "ok" THEN Put(c, y, t.out) ELSE c

\* the continuations of the years found cached, which run in the years' order
\* before any other event
RECURSIVE CachedYears(_, _, _)
CachedYears(ad, c, k) ==
    IF k > Len(Years) THEN ad
    ELSE CachedYears(IF CacheHas(c, Years[k]) THEN ThenYear(ad, Years[k], c[Years[k]])
                     ELSE ad, c, k + 1)

(***************************************************************************)
(* The Dashboard (src/js/maps.js): one loadYear and the loadYearData call  *)
(* it awaits.                                                              *)
(***************************************************************************)
\* Dashboard.loadYear calls that pass the isLoading guard
MaxCalls == 2

\* the values of the year selector
Selections == YearSet \cup {"all"}

\* currentData: null, a year's records, or the allData object
NullData == [kind |-> "null", list |-> <<>>, all |-> NoData]

\* the Dashboard as its constructor leaves it (currentYear "" is null, error
\* "" is a hidden error state)
NewDashboard ==
    [currentYear |-> "", currentData |-> NullData, isLoading |-> FALSE,
     error |-> ""]

\* loadYearData(sel) up to its first wait, with year cache c
StartCall(c, sel) ==
    IF sel = "all"
    THEN [year |-> sel,
          tasks |-> [z \in YearSet |-> StartTask(c, z)],
          allData |-> CachedYears(NoData, c, 1),
          st |-> IF \A z \in YearSet : Settled(StartTask(c, z))
                 THEN "returned" ELSE "running"]
    ELSE [year |-> sel,
          tasks |-> [z \in YearSet |-> IF z = sel THEN StartTask(c, sel)
                                       ELSE IdleTask],
          allData |-> NoData,
          st |-> IF Settled(StartTask(c, sel)) THEN "returned" ELSE "running"]

\* (mutant) the call of all years returns only if every year succeeded
MutSettleCallNeedsEveryYear(call, y, t2) ==
    IF ~Settled(t2) THEN [call EXCEPT !.tasks[y] = t2]
    ELSE IF call.year # "all"
    THEN [call EXCEPT !.tasks[y] = t2,
                      !.st = IF t2.pc = "ok" THEN "returned" ELSE "rejected"]
    ELSE [call EXCEPT !.tasks[y] = t2,
                      !.allData = IF t2.pc = "ok" THEN ThenYear(@, y, t2.out)
                                  ELSE CatchYear(@, y),
                      !.st = IF /\ t2.pc = "ok"
                                /\ \A z \in YearSet \ {y} : call.tasks[z].pc = "ok"
                             THEN "returned" ELSE "running"]

\* the call once year y's loadYearData has gone on as t2
SettleCall(call, y, t2) ==
    IF ~Settled(t2) THEN [call EXCEPT !.tasks[y] = t2]
    ELSE IF call.year # "all"
    THEN [call EXCEPT !.tasks[y] = t2,
                      !.st = IF t2.pc = "ok" THEN "returned" ELSE "rejected"]
    ELSE [call EXCEPT !.tasks[y] = t2,
                      !.allData = IF t2.pc = "ok" THEN ThenYear(@, y, t2.out)
                                  ELSE CatchYear(@, y),
                      !.st = IF \A z \in YearSet \ {y} : Settled(call.tasks[z])
                             THEN "returned" ELSE "running"]

\* what a returned call hands to loadYear
DataOf(call) ==
    IF call.year = "all"
    THEN [kind |-> "all", list |-> <<>>, all |-> call.allData]
    ELSE [kind |-> "year", list |-> call.tasks[call.year].out, all |-> NoData]

\* loadYear before its await: currentYear, showLoading, hideError
BeforeLoad(d, sel) ==
    [d EXCEPT !.currentYear = sel, !.isLoading = TRUE, !.error = ""]

\* (mutant) a failed 'all' load is shown as an error, too
MutAfterLoadAllFails(d, call) ==
    IF call.st = "running" THEN d
    ELSE IF call.st = "returned"
            /\ ~(call.year = "all"
                 /\ \E z \in YearSet : call.tasks[z].pc = "err")
    THEN [d EXCEPT !.currentData = DataOf(call), !.isLoading = FALSE]
    ELSE [d EXCEPT !.error = call.year, !.isLoading = FALSE]

\* loadYear after its await: the data is stored and shown, or the error state
\* is shown with the year of the call; then hideLoading
AfterLoad(d, call) ==
    IF call.st = "running" THEN d
    ELSE IF call.st = "returned"
    THEN [d EXCEPT !.currentData = DataOf(call), !.isLoading = FALSE]
    ELSE [d EXCEPT !.error = call.year, !.isLoading = FALSE]

\* refreshData: if (cache.has(currentYear)) cache.delete(currentYear)
CacheAfterRefresh(c, currentYear) ==
    [z \in DOMAIN c \ {currentYear} |-> c[z]]

\* the requests of call n's year y
CallRequests(n, y, t) ==
    IF t.pc = "geo"
    THEN {[c |-> n, y |-> y, i |-> t.i, field |-> t.field,
           address |-> LookupAddress(t)]}
    ELSE {}

\* a client with an address and no property
RowClient == Row(JStr(<<"g">>), JStr(<<"w", "a">>), JUndef)

\* the files the server may hold when the Dashboard is used
DashFilesOf(y) ==
    CASE y = "2022" -> { <<RowClient>> }
      [] y = "2023" -> { <<RowBare>> }
      [] OTHER -> { <<>> }

(***************************************************************************)
(* generateAnalytics and generateInsights.  A record is given by the five  *)
(* fields the two functions read.  regionStats is an object whose keys are *)
(* region names: Object.entries lists them in the order of insertion, so   *)
(* it is a sequence of entries here.                                       *)
(***************************************************************************)
MaxRecords == 3
MaxProperties == 10

InvestmentChars == <<"I", "n", "v", "e", "s", "t", "m", "e", "n", "t">>

StatRecord(cs, ps, pa, inter, st) ==
    [clientState |-> cs, propertyState |-> ps, propertyAddress |-> pa,
     isInterstate |-> inter, serviceType |-> st]

\* the position of region's entry in regionStats (0 when it has none)
RegionIndex(rs, region) ==
    IF \E k \in 1..Len(rs) : rs[k].region = region
    THEN CHOOSE k \in 1..Len(rs) : rs[k].region = region
    ELSE 0

\* if (!regionStats[region]) regionStats[region] = {clients: 0, properties: 0}
WithRegion(rs, region) ==
    IF RegionIndex(rs, region) = 0
    THEN Append(rs, [region |-> region, clients |-> 0, properties |-> 0])
    ELSE rs

\* regionStats[row.clientState].clients++
AddClient(rs, region) ==
    [WithRegion(rs, region) EXCEPT
        ![RegionIndex(WithRegion(rs, region), region)].clients = @ + 1]

\* regionStats[row.propertyState].properties++
AddProperty(rs, region) ==
    [WithRegion(rs, region) EXCEPT
        ![RegionIndex(WithRegion(rs, region), region)].properties = @ + 1]

\* (mutant) 'Unknown' is counted as a property region too
MutRegionRowCountsUnknown(rs, row) ==
    IF row.propertyState # ""
    THEN AddProperty(AddClient(rs, row.clientState), row.propertyState)
    ELSE AddClient(rs, row.clientState)

\* the body of data.forEach(row => ...) over regionStats
RegionRow(rs, row) ==
    IF row.propertyState # "" /\ row.propertyState # "Unknown"
    THEN AddProperty(AddClient(rs, row.clientState), row.propertyState)
    ELSE AddClient(rs, row.clientState)

RECURSIVE RegionStats(_, _)
RegionStats(rs, data) ==
    IF data = <<>> THEN rs
    ELSE RegionStats(RegionRow(rs, Head(data)), Tail(data))

RECURSIVE InsertEntry(_, _)
RECURSIVE MutInsertEntryBeforeTies(_, _)
\* (mutant) an entry is placed before the entries that total the same
MutInsertEntryBeforeTies(sorted, e) ==
    IF sorted = <<>> THEN <<e>>
    ELSE IF Head(sorted).clients + Head(sorted).properties
               > e.clients + e.properties
    THEN <<Head(sorted)>> \o MutInsertEntryBeforeTies(Tail(sorted), e)
    ELSE <<e>> \o sorted

\* the stable sort by (b.clients + b.properties) - (a.clients + a.properties):
\* an entry goes behind the entries that total as much or more
InsertEntry(sorted, e) ==
    IF sorted = <<>> THEN <<e>>
    ELSE IF Head(sorted).clients + Head(sorted).properties
               >= e.clients + e.properties
    THEN <<Head(sorted)>> \o InsertEntry(Tail(sorted), e)
    ELSE <<e>> \o sorted

RECURSIVE SortEntries(_, _)
SortEntries(sorted, rs) ==
    IF rs = <<>> THEN sorted
    ELSE SortEntries(InsertEntry(sorted, Head(rs)), Tail(rs))

\* topRegion ? topRegion[0] : 'N/A'
TopRegion(rs) ==
    IF SortEntries(<<>>, rs) = <<>> THEN "N/A"
    ELSE SortEntries(<<>>, rs)[1].region

RECURSIVE CountProperties(_)
CountProperties(data) ==
    IF data = <<>> THEN 0
    ELSE (IF Head(data).propertyAddress # <<>> THEN 1 ELSE 0)
            + CountProperties(Tail(data))

RECURSIVE CountInterstate(_)
CountInterstate(data) ==
    IF data = <<>> THEN 0
    ELSE (IF Head(data).isInterstate THEN 1 ELSE 0)
            + CountInterstate(Tail(data))

\* serviceTypes[row.serviceType] over the rows, for one service type
RECURSIVE CountService(_, _)
CountService(data, st) ==
    IF data = <<>> THEN 0
    ELSE (IF Head(data).serviceType = st THEN 1 ELSE 0)
            + CountService(Tail(data), st)

ServiceTypes(data) ==
    [st \in {data[k].serviceType : k \in 1..Len(data)} |-> CountService(data, st)]

RECURSIVE CountInternational(_)
CountInternational(data) ==
    IF data = <<>> THEN 0
    ELSE (IF Head(data).clientState \in {"Singapore", "Dubai"} THEN 1 ELSE 0)
            + CountInternational(Tail(data))

\* (n / d * 100).toFixed(1): the text of a number with one decimal, of
\* Infinity or of NaN.  The number is kept in tenths, rounded half up (the
\* error of the division in doubles is far below a twentieth at these sizes)
PercentFixed1(n, d) ==
    IF d = 0 /\ n = 0 THEN [kind |-> "NaN", tenths |-> 0]
    ELSE IF d = 0 THEN [kind |-> "Infinity", tenths |-> 0]
    ELSE [kind |-> "number", tenths |-> (2000 * n + d) \div (2 * d)]

\* text > limit: the text is converted to a number; NaN compares false
TextGreater(text, limit) ==
    \/ text.kind = "Infinity"
    \/ text.kind = "number" /\ text.tenths > 10 * limit

\* regionStats['NSW']?.clients || 0 and regionStats['QLD']?.properties || 0
ClientsOf(rs, region) ==
    IF RegionIndex(rs, region) = 0 THEN 0 ELSE rs[RegionIndex(rs, region)].clients
PropertiesOf(rs, region) ==
    IF RegionIndex(rs, region) = 0 THEN 0
    ELSE rs[RegionIndex(rs, region)].properties

\* the titles of the insights, in the order they are pushed
generateInsights(data, a) ==
    (IF TextGreater(PercentFixed1(a.interstateSales, a.totalProperties), 30)
     THEN <<"Strong Interstate Investment">> ELSE <<>>)
    \o (IF ClientsOf(a.regionStats, "NSW") > 0
           /\ PropertiesOf(a.regionStats, "QLD") > 0
        THEN <<"NSW to QLD Investment Flow">> ELSE <<>>)
    \o (IF TextGreater(PercentFixed1(
                (IF InvestmentChars \in DOMAIN a.serviceTypes
                 THEN a.serviceTypes[InvestmentChars] ELSE 0),
                a.totalClients), 70)
        THEN <<"Investment-Focused Client Base">> ELSE <<>>)
    \o (IF CountInternational(data) > 0
        THEN <<"International Client Interest">> ELSE <<>>)

\* the analytics object before its insights are added
AnalyticsOf(data) ==
    [totalClients |-> Len(data),
     totalProperties |-> CountProperties(data),
     interstateSales |-> CountInterstate(data),
     serviceTypes |-> ServiceTypes(data),
     regionStats |-> RegionStats(<<>>, data),
     topRegion |-> TopRegion(RegionStats(<<>>, data))]

generateAnalytics(data) ==
    [done |-> TRUE,
     totalClients |-> AnalyticsOf(data).totalClients,
     totalProperties |-> AnalyticsOf(data).totalProperties,
     interstateSales |-> AnalyticsOf(data).interstateSales,
     serviceTypes |-> AnalyticsOf(data).serviceTypes,
     regionStats |-> AnalyticsOf(data).regionStats,
     topRegion |-> AnalyticsOf(data).topRegion,
     insights |-> generateInsights(data, AnalyticsOf(data))]

\* no analytics computed yet
NoAnalytics ==
    [done |-> FALSE, totalClients |-> 0, totalProperties |-> 0,
     interstateSales |-> 0, serviceTypes |-> <<>>, regionStats |-> <<>>,
     topRegion |-> "", insights |-> <<>>]

\* the record sets: a client of SA who bought in the NT, one who bought in
\* SA, an investor of NSW who bought in QLD, a record without any address,
\* a client of Singapore who bought in the NT, a client of the NT without a
\* property, and a hand-made record marked interstate without a property
\* address (generateAnalytics takes the records its caller hands over)
StatShapes ==
    << StatRecord("SA", "NT", <<"n", "t">>, TRUE, UnknownChars),
       StatRecord("SA", "SA", <<"s", "a">>, FALSE, UnknownChars),
       StatRecord("NSW", "QLD", <<"q", "l", "d">>, TRUE, InvestmentChars),
       StatRecord("Unknown", "Unknown", <<>>, FALSE, UnknownChars),
       StatRecord("Singapore", "NT", <<"n", "t">>, TRUE, InvestmentChars),
       StatRecord("NT", "Unknown", <<>>, FALSE, InvestmentChars),
       StatRecord("SA", "NT", <<>>, TRUE, UnknownChars) >>

\* p records with a property, the first i of them interstate
Series(p, i) ==
    [k \in 1..p |-> IF k <= i THEN StatShapes[1] ELSE StatShapes[2]]

StatInputs ==
    UNION {[1..n -> {StatShapes[k] : k \in 1..Len(StatShapes)}] : n \in 0..MaxRecords}
    \cup {Series(p, i) : p \in 0..MaxProperties, i \in 0..MaxProperties}

(***************************************************************************)
(* MapsManager: the maps of the all-years view and the markers and lines   *)
(* it tracks.                                                              *)
(***************************************************************************)
\* the constructor
NewMapsManager ==
    [yearMaps |-> {}, markers |-> <<>>, polylines |-> <<>>,
     isMultiMapMode |-> FALSE]

\* initializeMultipleMaps(): a map for each year whose container exists
initializeMultipleMaps(m, g, present) ==
    IF g = "absent" THEN m
    ELSE [m EXCEPT !.yearMaps = m.yearMaps \cup present,
                   !.isMultiMapMode = TRUE]

\* clearMap()
clearMap(m) == [m EXCEPT !.markers = <<>>, !.polylines = <<>>]

\* clearYearMap(year)
clearYearMap(m, year) == clearMap(m)

\* addClientToMap(client, index, mapInstance), mapInstance the map of year
addClientToMap(m, client, year) ==
    IF client.mapDisplayType = "skip" THEN m
    ELSE [m EXCEPT
        !.markers = @
            \o (IF client.clientCoords.some /\ Truthy(client.hasClientLocation)
                THEN << [map |-> year, name |-> client.name, type |-> "Client",
                         position |-> client.clientCoords] >>
                ELSE <<>>)
            \o (IF client.mapDisplayType = "both" /\ client.propertyCoords.some
                   /\ Truthy(client.hasPropertyLocation)
                THEN << [map |-> year, name |-> client.name,
                         type |-> "Property",
                         position |-> client.propertyCoords] >>
                ELSE <<>>),
        !.polylines = @
            \o (IF client.mapDisplayType = "both" /\ client.propertyCoords.some
                   /\ Truthy(client.hasPropertyLocation)
                   /\ client.clientCoords.some
                THEN << [map |-> year,
                         path |-> <<client.clientCoords, client.propertyCoords>>,
                         interstate |-> client.isInterstate] >>
                ELSE <<>>)]

RECURSIVE AddClients(_, _, _)
AddClients(m, yearData, year) ==
    IF yearData = <<>> THEN m
    ELSE AddClients(addClientToMap(m, Head(yearData), year), Tail(yearData), year)

\* the body of years.forEach(year => ...) in updateMultipleMaps
DrawYear(m, byYear, year) ==
    IF year \notin m.yearMaps THEN m
    ELSE AddClients(clearYearMap(m, year), byYear[year], year)

RECURSIVE DrawYears(_, _, _)
DrawYears(m, byYear, k) ==
    IF k > Len(Years) THEN m
    ELSE DrawYears(DrawYear(m, byYear, Years[k]), byYear, k + 1)

\* updateMultipleMaps(allData)
updateMultipleMaps(m, byYear, g, present) ==
    DrawYears(IF m.isMultiMapMode THEN m
              ELSE initializeMultipleMaps(m, g, present), byYear, 1)

\* the record the pipeline makes of a row when no lookup succeeds
DrawnRecord(row, year) ==
    Geocoded(CleanRecord(row, year),
             IF Truthy(CleanRecord(row, year).hasClientLocation)
                /\ CleanRecord(row, year).clientAddress # <<>>
             THEN fallbackCoords(CleanRecord(row, year).clientState)
             ELSE NullCoords,
             IF Truthy(CleanRecord(row, year).hasPropertyLocation)
                /\ CleanRecord(row, year).propertyAddress # <<>>
             THEN fallbackCoords(CleanRecord(row, year).propertyState)
             ELSE NullCoords)

\* the records of one year that are handed to the map
YearRecords(y) ==
    { <<>>, <<DrawnRecord(RowSame, y)>>, <<DrawnRecord(RowClient, y)>>,
      <<DrawnRecord(RowInter, y), DrawnRecord(RowBare, y)>> }

\* the byYear objects that are handed to updateMultipleMaps
ByYearInputs ==
    { [y \in YearSet |-> CASE y = Years[1] -> d1 [] y = Years[2] -> d2
                            [] y = Years[3] -> d3 [] OTHER -> d4] :
        d1 \in YearRecords(Years[1]), d2 \in YearRecords(Years[2]),
        d3 \in YearRecords(Years[3]), d4 \in YearRecords(Years[4]) }

\* the year containers (map2022 .. map2025) the page may have
ContainerSets == {YearSet, YearSet \ {Years[Len(Years)]}, {}}

\* nothing drawn yet
NothingDrawn == [done |-> FALSE, byYear |-> [y \in YearSet |-> <<>>]]

(***************************************************************************)
(* State.                                                                  *)
(***************************************************************************)
VARIABLES
    cache,          \* DataLoader.cache: year -> records
    geocodeCache,   \* DataLoader.geocodeCache: lower-cased address -> coords or null
    storage,        \* the localStorage item 'geocodeCache'
    storageWorks,   \* whether localStorage.setItem succeeds
    google,         \* the state of window.google
    files,          \* the server's data/<year>.csv, parsed
    ld,             \* the loadYearData call of each year
    outstanding,    \* requests sent to the geocoding service and not answered
    op,             \* the page's current call of loadYearData
    allData,        \* the allData object of loadAllYearsData
    resolved,       \* history: key -> coords of its first successful resolution
    nOps, nClears, nReloads,
    dash,           \* the Dashboard: currentYear, currentData, isLoading, error
    calls,          \* the loadYearData calls the Dashboard's loadYear has made
    sent,           \* their requests to the geocoding service, not answered
    raced,          \* history: <<m, n>>, call n fetched a year call m was loading
    refreshes,      \* history: the calls that refreshData made
    stale,          \* history: the calls made before the latest reset
    records,        \* the record set handed to generateAnalytics
    analytics,      \* what generateAnalytics returned for it
    mapsManager,    \* the MapsManager: yearMaps, markers, polylines, mode
    containers,     \* the years whose map container the page has
    drawn           \* the byYear of the last updateMultipleMaps that finished

vars == <<cache, geocodeCache, storage, storageWorks, google, files, ld,
          outstanding, op, allData, resolved, nOps, nClears, nReloads,
          dash, calls, sent, raced, refreshes, stale, records, analytics,
          mapsManager, containers, drawn>>

\* the Dashboard's part of the state, and the part of the page that calls the
\* DataLoader itself
dashVars == <<dash, calls, sent, raced, refreshes, stale>>
\* the part of generateAnalytics and the part of the MapsManager
statVars == <<records, analytics>>
mapVars == <<mapsManager, containers, drawn>>
pageVars == <<ld, outstanding, op, allData, resolved, nOps, nClears, nReloads>>

NoOp == [kind |-> "none", year |-> "", st |-> "idle", result |-> <<>>]

Init ==
    /\ cache = EmptyMap
    /\ storage \in {NoItem, CorruptItem}
    /\ geocodeCache = loadGeocodeCache(storage)
    /\ storageWorks \in BOOLEAN
    /\ google \in GoogleStates
    /\ files \in [YearSet -> UNION {FilesOf(y) : y \in YearSet}]
    /\ \A y \in YearSet : files[y] \in FilesOf(y)
    /\ ld = [y \in YearSet |-> IdleTask]
    /\ outstanding = {}
    /\ op = NoOp
    /\ allData = NoData
    /\ resolved = EmptyMap
    /\ nOps = 0
    /\ nClears = 0
    /\ nReloads = 0
    /\ dash = NewDashboard
    /\ calls = <<>>
    /\ sent = {}
    /\ raced = {}
    /\ refreshes = {}
    /\ stale = {}
    /\ records = <<>>
    /\ analytics = NoAnalytics
    /\ mapsManager = NewMapsManager
    /\ containers = YearSet
    /\ drawn = NothingDrawn

(***************************************************************************)
(* Actions.                                                                *)
(***************************************************************************)
\* the page calls loadYearData(y) for one year
LoadYear(y) ==
    /\ op.st # "running"
    /\ nOps < MaxOps
    /\ nOps' = nOps + 1
    /\ ld' = [z \in YearSet |-> IF z = y THEN StartTask(cache, y) ELSE IdleTask]
    /\ op' = [kind |-> "year", year |-> y,
              st |-> IF Settled(StartTask(cache, y)) THEN "returned" ELSE "running",
              result |-> StartTask(cache, y).out]
    /\ allData' = NoData
    /\ UNCHANGED <<cache, geocodeCache, storage, storageWorks, google, files,
                   outstanding, resolved, nClears, nReloads>>
    /\ UNCHANGED dashVars
    /\ UNCHANGED <<statVars, mapVars>>

\* the page calls loadYearData('all'): loadAllYearsData starts the four loads
LoadAll ==
    /\ op.st # "running"
    /\ nOps < MaxOps
    /\ nOps' = nOps + 1
    /\ ld' = [z \in YearSet |-> StartTask(cache, z)]
    /\ allData' = CachedYears(NoData, cache, 1)
    /\ op' = [kind |-> "all", year |-> "all",
              st |-> IF \A z \in YearSet : Settled(StartTask(cache, z))
                     THEN "returned" ELSE "running",
              result |-> <<>>]
    /\ UNCHANGED <<cache, geocodeCache, storage, storageWorks, google, files,
                   outstanding, resolved, nClears, nReloads>>
    /\ UNCHANGED dashVars
    /\ UNCHANGED <<statVars, mapVars>>

\* year y's loadYearData goes on as t2: if it has returned or thrown, the year
\* cache is set and the caller's continuation runs
Settle(y, t2) ==
    /\ ld' = [ld EXCEPT ![y] = t2]
    /\ cache' = IF Settled(t2) THEN CacheOnSettle(cache, y, t2) ELSE cache
    /\ IF ~Settled(t2) THEN UNCHANGED <<op, allData>>
       ELSE IF op.kind = "year"
       THEN /\ op' = [op EXCEPT !.st = IF t2.pc = "ok" THEN "returned" ELSE "rejected",
                                !.result = t2.out]
            /\ UNCHANGED allData
       ELSE /\ allData' = IF t2.pc = "ok" THEN ThenYear(allData, y, t2.out)
                          ELSE CatchYear(allData, y)
            /\ op' = [op EXCEPT !.st = IF \A z \in YearSet \ {y} : Settled(ld[z])
                                       THEN "returned" ELSE "running"]

\* the fetch fails, answers with a status that is not ok, or the body cannot
\* be read: in each case the catch block logs and rethrows.  (Between the
\* response and its body the call reads and writes nothing, so the two awaits
\* are one step here.)
FetchFails(y) ==
    /\ ld[y].pc = "fetch"
    /\ Settle(y, [ld[y] EXCEPT !.pc = "err"])
    /\ UNCHANGED <<geocodeCache, storage, storageWorks, google, files,
                   outstanding, resolved, nOps, nClears, nReloads>>
    /\ UNCHANGED dashVars
    /\ UNCHANGED <<statVars, mapVars>>

\* the fetch answers ok and the body is read: parseCSV, processData, and
\* addGeocoding up to its first wait
FetchDelivers(y) ==
    /\ ld[y].pc = "fetch"
    /\ LET t2 == RunRows([ld[y] EXCEPT !.rows = CleanedData(files[y], y)],
                         geocodeCache, google, resolved)
       IN /\ Settle(y, t2)
          /\ outstanding' = outstanding \cup Requests(y, t2)
    /\ UNCHANGED <<geocodeCache, storage, storageWorks, google, files,
                   resolved, nOps, nClears, nReloads>>
    /\ UNCHANGED dashVars
    /\ UNCHANGED <<statVars, mapVars>>

\* the geocoder's callback for request r: geocodeAddress caches and saves the
\* result and returns it, and the loop that awaited it goes on
GeocoderAnswers(r, ok) ==
    /\ r \in outstanding
    /\ LET result == CallbackResult(r.address, ok)
           key == toLowerCase(r.address)
           gc2 == Put(geocodeCache, key, result)
           res2 == IF ok /\ key \notin DOMAIN resolved
                   THEN Put(resolved, key, result) ELSE resolved
           awaited == /\ ld[r.y].pc = "geo"
                      /\ ld[r.y].i = r.i
                      /\ ld[r.y].field = r.field
           t1 == [ld[r.y] EXCEPT !.pc = "run"]
           t2 == RunRows(AfterLookup(CloseEntry(t1, TRUE, result, TRUE),
                                     OrFallback(result, LookupState(t1))),
                         gc2, google, res2)
       IN /\ geocodeCache' = gc2
          /\ storage' = saveGeocodeCache(storage, gc2, storageWorks)
          /\ resolved' = res2
          /\ IF awaited
             THEN /\ Settle(r.y, t2)
                  /\ outstanding' = (outstanding \ {r}) \cup Requests(r.y, t2)
             ELSE /\ outstanding' = outstanding \ {r}
                  /\ UNCHANGED <<ld, cache, op, allData>>
    /\ UNCHANGED <<storageWorks, google, files, nOps, nClears, nReloads>>
    /\ UNCHANGED dashVars
    /\ UNCHANGED <<statVars, mapVars>>

\* the Google Maps script makes progress
GoogleLoads ==
    /\ google # "ready"
    /\ google' = IF google = "absent" THEN "partial" ELSE "ready"
    /\ UNCHANGED <<cache, geocodeCache, storage, storageWorks, files, ld,
                   outstanding, op, allData, resolved, nOps, nClears, nReloads>>
    /\ UNCHANGED dashVars
    /\ UNCHANGED <<statVars, mapVars>>

\* clearCache().  (A call that finds both caches and the storage item empty
\* changes nothing and is not counted.)
ClearCache ==
    /\ nClears < MaxClears
    /\ cache # EmptyMap \/ geocodeCache # EmptyMap \/ storage # NoItem
    /\ nClears' = nClears + 1
    /\ cache' = EmptyMap
    /\ geocodeCache' = EmptyMap
    /\ storage' = NoItem
    /\ resolved' = EmptyMap
    /\ UNCHANGED <<storageWorks, google, files, ld, outstanding, op, allData,
                   nOps, nReloads>>
    /\ UNCHANGED dashVars
    /\ UNCHANGED <<statVars, mapVars>>

\* the page is loaded again: what was in flight is gone, and a new DataLoader
\* is constructed.  (Before the page's first call that gives an initial state.)
Reload ==
    /\ nReloads < MaxReloads
    /\ op # NoOp
    /\ nReloads' = nReloads + 1
    /\ cache' = EmptyMap
    /\ geocodeCache' = loadGeocodeCache(storage)
    /\ resolved' = [k \in DOMAIN resolved \cap DOMAIN loadGeocodeCache(storage)
                        |-> resolved[k]]
    /\ google' \in GoogleStates
    /\ ld' = [y \in YearSet |-> IdleTask]
    /\ outstanding' = {}
    /\ op' = NoOp
    /\ allData' = NoData
    /\ UNCHANGED <<storage, storageWorks, files, nOps, nClears>>
    /\ UNCHANGED dashVars
    /\ UNCHANGED <<statVars, mapVars>>

Next ==
    \/ \E y \in YearSet : LoadYear(y)
    \/ LoadAll
    \/ \E y \in YearSet : FetchFails(y)
    \/ \E y \in YearSet : FetchDelivers(y)
    \/ \E r \in outstanding, ok \in BOOLEAN : GeocoderAnswers(r, ok)
    \/ GoogleLoads
    \/ ClearCache

\* one page load: the DataLoader constructed with the page serves every call
Spec == Init /\ [][Next]_vars

\* several page loads, each with its own DataLoader over the same storage and
\* with single-year calls only
NextReload ==
    \/ \E y \in YearSet : LoadYear(y)
    \/ \E y \in YearSet : FetchFails(y)
    \/ \E y \in YearSet : FetchDelivers(y)
    \/ \E r \in outstanding, ok \in BOOLEAN : GeocoderAnswers(r, ok)
    \/ GoogleLoads
    \/ ClearCache
    \/ Reload

SpecReload == Init /\ [][NextReload]_vars

(***************************************************************************)
(* The Dashboard's operations.  A loadYear that finds isLoading set, and a *)
(* refreshData that finds it set or no current year, return at once and    *)
(* are no steps.                                                           *)
(***************************************************************************)
InitDash ==
    /\ cache = EmptyMap
    /\ storage = NoItem
    /\ geocodeCache = loadGeocodeCache(storage)
    /\ storageWorks = TRUE
    /\ google \in GoogleStates
    /\ files \in [YearSet -> UNION {DashFilesOf(y) : y \in YearSet}]
    /\ \A y \in YearSet : files[y] \in DashFilesOf(y)
    /\ ld = [y \in YearSet |-> IdleTask]
    /\ outstanding = {}
    /\ op = NoOp
    /\ allData = NoData
    /\ resolved = EmptyMap
    /\ nOps = 0
    /\ nClears = 0
    /\ nReloads = 0
    /\ dash = NewDashboard
    /\ calls = <<>>
    /\ sent = {}
    /\ raced = {}
    /\ refreshes = {}
    /\ stale = {}
    /\ records = <<>>
    /\ analytics = NoAnalytics
    /\ mapsManager = NewMapsManager
    /\ containers = YearSet
    /\ drawn = NothingDrawn

\* the calls still running for the single year that a new call is going to fetch
RacedWith(cs, call) ==
    {<<m, Len(cs) + 1>> : m \in {k \in 1..Len(cs) :
        /\ call.year \in YearSet
        /\ call.tasks[call.year].pc = "fetch"
        /\ cs[k].year = call.year
        /\ cs[k].st = "running"}}

\* Dashboard.loadYear(sel)
DashLoadYear(sel) ==
    /\ ~dash.isLoading
    /\ Len(calls) < MaxCalls
    /\ calls' = Append(calls, StartCall(cache, sel))
    /\ dash' = AfterLoad(BeforeLoad(dash, sel), StartCall(cache, sel))
    /\ raced' = raced \cup RacedWith(calls, StartCall(cache, sel))
    /\ UNCHANGED <<cache, geocodeCache, storage, storageWorks, google, files,
                   sent, refreshes>>
    /\ UNCHANGED pageVars
    /\ UNCHANGED <<stale, statVars, mapVars>>

\* Dashboard.refreshData()
DashRefresh ==
    /\ dash.currentYear # ""
    /\ ~dash.isLoading
    /\ Len(calls) < MaxCalls
    /\ cache' = CacheAfterRefresh(cache, dash.currentYear)
    /\ calls' = Append(calls, StartCall(cache', dash.currentYear))
    /\ dash' = AfterLoad(BeforeLoad(dash, dash.currentYear),
                         StartCall(cache', dash.currentYear))
    /\ raced' = raced \cup RacedWith(calls, StartCall(cache', dash.currentYear))
    /\ refreshes' = refreshes \cup {Len(calls) + 1}
    /\ UNCHANGED <<geocodeCache, storage, storageWorks, google, files, sent>>
    /\ UNCHANGED pageVars
    /\ UNCHANGED <<stale, statVars, mapVars>>

\* Dashboard.showInitialState(): hideError, hideLoading
DashShowInitialState ==
    /\ dash' = [dash EXCEPT !.error = "", !.isLoading = FALSE]
    /\ dash' # dash
    /\ UNCHANGED <<cache, geocodeCache, storage, storageWorks, google, files,
                   calls, sent, raced, refreshes>>
    /\ UNCHANGED pageVars
    /\ UNCHANGED <<stale, statVars, mapVars>>

\* Dashboard.reset(): the fields are nulled, clearCache(), showInitialState()
DashReset ==
    /\ dash' = NewDashboard
    /\ cache' = EmptyMap
    /\ geocodeCache' = EmptyMap
    /\ storage' = NoItem
    /\ dash' # dash \/ cache' # cache \/ geocodeCache' # geocodeCache
       \/ storage' # storage
    /\ UNCHANGED <<storageWorks, google, files, calls, sent, raced,
                   refreshes>>
    /\ stale' = 1..Len(calls)
    /\ UNCHANGED pageVars
    /\ UNCHANGED <<statVars, mapVars>>

\* call n's loadYearData of year y goes on as t2; if the call has returned
\* or thrown, loadYear goes on after its await
DashSettle(n, y, t2) ==
    /\ calls' = [calls EXCEPT ![n] = SettleCall(@, y, t2)]
    /\ cache' = IF Settled(t2) THEN CacheOnSettle(cache, y, t2) ELSE cache
    /\ dash' = AfterLoad(dash, SettleCall(calls[n], y, t2))

\* the fetch of call n for year y fails
DashFetchFails(n, y) ==
    /\ calls[n].tasks[y].pc = "fetch"
    /\ DashSettle(n, y, [calls[n].tasks[y] EXCEPT !.pc = "err"])
    /\ UNCHANGED <<geocodeCache, storage, storageWorks, google, files, sent,
                   raced, refreshes>>
    /\ UNCHANGED pageVars
    /\ UNCHANGED <<stale, statVars, mapVars>>

\* the fetch of call n for year y delivers the file
DashFetchDelivers(n, y) ==
    /\ calls[n].tasks[y].pc = "fetch"
    /\ LET t2 == RunRows([calls[n].tasks[y] EXCEPT
                              !.rows = CleanedData(files[y], y)],
                         geocodeCache, google, resolved)
       IN /\ DashSettle(n, y, t2)
          /\ sent' = sent \cup CallRequests(n, y, t2)
    /\ UNCHANGED <<geocodeCache, storage, storageWorks, google, files, raced,
                   refreshes>>
    /\ UNCHANGED pageVars
    /\ UNCHANGED <<stale, statVars, mapVars>>

\* the geocoder's callback for request r of a Dashboard load
DashGeocoderAnswers(r, ok) ==
    /\ r \in sent
    /\ LET result == CallbackResult(r.address, ok)
           gc2 == Put(geocodeCache, toLowerCase(r.address), result)
           t1 == [calls[r.c].tasks[r.y] EXCEPT !.pc = "run"]
           t2 == RunRows(AfterLookup(CloseEntry(t1, TRUE, result, TRUE),
                                     OrFallback(result, LookupState(t1))),
                         gc2, google, resolved)
       IN /\ geocodeCache' = gc2
          /\ storage' = saveGeocodeCache(storage, gc2, storageWorks)
          /\ DashSettle(r.c, r.y, t2)
          /\ sent' = (sent \ {r}) \cup CallRequests(r.c, r.y, t2)
    /\ UNCHANGED <<storageWorks, google, files, raced, refreshes>>
    /\ UNCHANGED pageVars
    /\ UNCHANGED <<stale, statVars, mapVars>>

NextDash ==
    \/ \E sel \in Selections : DashLoadYear(sel)
    \/ DashRefresh
    \/ \E n \in 1..Len(calls), y \in YearSet : DashFetchFails(n, y)
    \/ \E n \in 1..Len(calls), y \in YearSet : DashFetchDelivers(n, y)
    \/ \E r \in sent, ok \in BOOLEAN : DashGeocoderAnswers(r, ok)
    \/ GoogleLoads

\* the page as the user drives it with the year selector and the refresh
\* button: the controls are disabled while a load runs
SpecDash == InitDash /\ [][NextDash]_vars

\* a fetch that is under way settles (the response arrives and is parsed, or
\* the fetch fails), and a request to the geocoding service is answered
DashFetchSettles ==
    \E n \in 1..Len(calls), y \in YearSet :
        DashFetchFails(n, y) \/ DashFetchDelivers(n, y)
DashGeocoderSettles ==
    \E r \in sent, ok \in BOOLEAN : DashGeocoderAnswers(r, ok)

\* the same page when every fetch, parse and geocoding callback settles
SpecDashFair ==
    /\ InitDash
    /\ [][NextDash]_vars
    /\ WF_vars(DashFetchSettles)
    /\ WF_vars(DashGeocoderSettles)

\* the page with showInitialState() and reset() called while a load may be
\* running, and with single-year selections only
NextDashReset ==
    \/ \E y \in YearSet : DashLoadYear(y)
    \/ DashRefresh
    \/ DashShowInitialState
    \/ DashReset
    \/ \E n \in 1..Len(calls), y \in YearSet : DashFetchFails(n, y)
    \/ \E n \in 1..Len(calls), y \in YearSet : DashFetchDelivers(n, y)
    \/ \E r \in sent, ok \in BOOLEAN : DashGeocoderAnswers(r, ok)
    \/ GoogleLoads

SpecDashReset == InitDash /\ [][NextDashReset]_vars
(***************************************************************************)
(* The pipeline of one year over a wide choice of rows.                    *)
(***************************************************************************)
\* the values parseCSV can give a column: undefined (the row is too short),
\* '', and strings, with white space kept where the file quotes it twice
RawNames ==
    {JUndef, JStr(<<>>), JStr(<<" ">>), JStr(<<"a">>), JStr(<<" ", "b">>)}
RawAddresses ==
    {JUndef, JStr(<<>>), JStr(<<" ">>), JStr(<<"s", "a">>), JStr(<<"N", "T">>),
     JStr(<<"z">>), JStr(NoAddressInContract)}
RawRows == {Row(n, a, p) : n \in RawNames, a \in RawAddresses, p \in RawAddresses}

\* a row without a name and with addresses no other row has
RowNoNameVic == Row(JStr(<<" ">>), JStr(<<"v", "i", "c">>), JStr(<<"q", "l", "d">>))
\* a property and no client address
RowPropOnly == Row(JStr(<<"h">>), JUndef, JStr(<<"n", "t">>))
PairRows == {RowNoNameVic, RowPropOnly, RowInter, RowClient, RowSame}

\* addresses that name two places, in either case
PlaceWords == StateChars \o <<SingaporeChars, DubaiChars>>
PlaceAddresses ==
    {toLowerCase(PlaceWords[j]) \o <<" ">> \o toUpperCase(PlaceWords[k]) :
        j \in 1..Len(PlaceWords), k \in 1..Len(PlaceWords)}
    \cup {toUpperCase(PlaceWords[j]) \o <<",">> \o toLowerCase(PlaceWords[k]) :
        j \in 1..Len(PlaceWords), k \in 1..Len(PlaceWords)}
PlaceRows == {Row(JStr(<<"a">>), JStr(s), JUndef) : s \in PlaceAddresses}

\* files of one row, and of two
RawFiles ==
    {<<r>> : r \in RawRows \cup PlaceRows}
    \cup {<<r1, r2>> : r1 \in PairRows, r2 \in PairRows}

InitRows ==
    /\ cache = EmptyMap
    /\ storage = NoItem
    /\ geocodeCache = loadGeocodeCache(storage)
    /\ storageWorks = TRUE
    /\ google \in GoogleStates
    /\ files \in {[y \in YearSet |-> IF y = Years[1] THEN f ELSE <<>>] : f \in RawFiles}
    /\ ld = [y \in YearSet |-> IdleTask]
    /\ outstanding = {}
    /\ op = NoOp
    /\ allData = NoData
    /\ resolved = EmptyMap
    /\ nOps = 0
    /\ nClears = 0
    /\ nReloads = 0
    /\ dash = NewDashboard
    /\ calls = <<>>
    /\ sent = {}
    /\ raced = {}
    /\ refreshes = {}
    /\ stale = {}
    /\ records = <<>>
    /\ analytics = NoAnalytics
    /\ mapsManager = NewMapsManager
    /\ containers = YearSet
    /\ drawn = NothingDrawn

NextRows ==
    \/ LoadYear(Years[1])
    \/ FetchDelivers(Years[1])
    \/ \E r \in outstanding, ok \in BOOLEAN : GeocoderAnswers(r, ok)

\* loadYearData of the first year, whatever its file holds
SpecRows == InitRows /\ [][NextRows]_vars

(***************************************************************************)
(* generateAnalytics over the record sets.                                 *)
(***************************************************************************)
InitStats ==
    /\ cache = EmptyMap
    /\ storage = NoItem
    /\ geocodeCache = EmptyMap
    /\ storageWorks = TRUE
    /\ files = [y \in YearSet |-> <<>>]
    /\ ld = [y \in YearSet |-> IdleTask]
    /\ outstanding = {}
    /\ op = NoOp
    /\ allData = NoData
    /\ resolved = EmptyMap
    /\ nOps = 0
    /\ nClears = 0
    /\ nReloads = 0
    /\ dash = NewDashboard
    /\ calls = <<>>
    /\ sent = {}
    /\ raced = {}
    /\ refreshes = {}
    /\ stale = {}
    /\ google = "ready"
    /\ records \in StatInputs
    /\ analytics = NoAnalytics
    /\ mapsManager = NewMapsManager
    /\ containers = YearSet
    /\ drawn = NothingDrawn

\* analytics = dataLoader.generateAnalytics(data), data being records
GenerateAnalytics ==
    /\ ~analytics.done
    /\ analytics' = generateAnalytics(records)
    /\ UNCHANGED <<cache, geocodeCache, storage, storageWorks, google, files,
                   records>>
    /\ UNCHANGED <<pageVars, dashVars, mapVars>>

NextStats == GenerateAnalytics

SpecStats == InitStats /\ [][NextStats]_vars

(***************************************************************************)
(* The all-years view of the MapsManager.                                  *)
(***************************************************************************)
InitMaps ==
    /\ cache = EmptyMap
    /\ storage = NoItem
    /\ geocodeCache = EmptyMap
    /\ storageWorks = TRUE
    /\ files = [y \in YearSet |-> <<>>]
    /\ ld = [y \in YearSet |-> IdleTask]
    /\ outstanding = {}
    /\ op = NoOp
    /\ allData = NoData
    /\ resolved = EmptyMap
    /\ nOps = 0
    /\ nClears = 0
    /\ nReloads = 0
    /\ dash = NewDashboard
    /\ calls = <<>>
    /\ sent = {}
    /\ raced = {}
    /\ refreshes = {}
    /\ stale = {}
    /\ google \in GoogleStates
    /\ records = <<>>
    /\ analytics = NoAnalytics
    /\ mapsManager = NewMapsManager
    /\ containers \in ContainerSets
    /\ drawn = NothingDrawn

\* mapsManager.updateMultipleMaps(allData), allData.byYear being byYear
UpdateMultipleMaps(byYear) ==
    /\ mapsManager' = updateMultipleMaps(mapsManager, byYear, google, containers)
    /\ drawn' = [done |-> TRUE, byYear |-> byYear]
    /\ UNCHANGED <<cache, geocodeCache, storage, storageWorks, google, files,
                   containers>>
    /\ UNCHANGED <<pageVars, dashVars, statVars>>

NextMaps ==
    \/ \E byYear \in ByYearInputs : UpdateMultipleMaps(byYear)
    \/ GoogleLoads

SpecMaps == InitMaps /\ [][NextMaps]_vars

(***************************************************************************)
(* Properties.                                                             *)
(***************************************************************************)
AllReturned == op.kind = "all" /\ op.st = "returned"

RECURSIVE NamesOf(_)
NamesOf(data) ==
    IF data = <<>> THEN <<>> ELSE <<Head(data).name>> \o NamesOf(Tail(data))

RECURSIVE OfYear(_, _)
OfYear(data, y) ==
    IF data = <<>> THEN <<>>
    ELSE IF Head(data).year = y THEN <<Head(data)>> \o OfYear(Tail(data), y)
    ELSE OfYear(Tail(data), y)

RECURSIVE SumLen(_, _)
SumLen(m, k) ==
    IF k > Len(Years) THEN 0 ELSE Len(m[Years[k]]) + SumLen(m, k + 1)

\* C1: the combined sequence returned by loadAllYearsData lists the records
\* in the order of the years 2022, 2023, 2024, 2025, whatever the order in
\* which the four loads complete.
C1_CombinedInYearOrder ==
    AllReturned =>
        \A i, j \in 1..Len(allData.combined) :
            i < j => YearIndex(allData.combined[i].year)
                        <= YearIndex(allData.combined[j].year)

\* a geocoder callback without a result has just been handled for year y's
\* pending lookup
FailedAnswerFor(y) ==
    /\ ld[y].pc = "geo"
    /\ Len(ld'[y].log) >= Len(ld[y].log)
    /\ ~ld'[y].log[Len(ld[y].log)].open
    /\ ld'[y].log[Len(ld[y].log)].ext
    /\ ~ld'[y].log[Len(ld[y].log)].ret.some

\* C2: when the geocoding service answers without a result, geocodeAddress
\* returns null and leaves the geocode cache, in memory and in storage, as
\* it was.
C2_FailureNotCached ==
    [][\A y \in YearSet :
          FailedAnswerFor(y) => geocodeCache' = geocodeCache /\ storage' = storage]_vars

\* C3: a geocodeAddress call made after the key's first successful
\* resolution (no clearCache since, service available) returns that
\* coordinate and sends nothing to the service.
C3_ResolvedStaysResolved ==
    \A y \in YearSet : \A k \in 1..Len(ld[y].log) :
        ld[y].log[k].known =>
            /\ ~ld[y].log[k].open
            /\ ~ld[y].log[k].ext
            /\ ld[y].log[k].ret = ld[y].log[k].expect

\* C4: loadAllYearsData never rejects; when it returns, a year whose load
\* failed has byYear[year] = [] and no record in combined, and a year whose
\* load succeeded has its own records in byYear, whatever its siblings did.
C4_PartialFailure ==
    /\ op.kind = "all" => op.st # "rejected"
    /\ op.kind = "all" /\ (\A y \in YearSet : Settled(ld[y])) => op.st = "returned"
    /\ AllReturned =>
        \A y \in YearSet :
            /\ y \in DOMAIN allData.byYear
            /\ ld[y].pc = "err" =>
                  /\ allData.byYear[y] = <<>>
                  /\ OfYear(allData.combined, y) = <<>>
            /\ ld[y].pc = "ok" =>
                  /\ allData.byYear[y] = ld[y].out
                  /\ NamesOf(allData.byYear[y]) = NamesOf(CleanedData(files[y], y))

C4_Witness ==
    /\ AllReturned
    /\ \E y1, y2 \in YearSet :
          /\ ld[y1].pc = "err"
          /\ ld[y2].pc = "ok"
          /\ ld[y2].rows # <<>>
          /\ allData.byYear[y2] # <<>>

\* C5: when loadAllYearsData returns, byYear has the four years, combined is
\* as long as the byYear sequences together, and the records of combined
\* stamped with a year are that year's byYear records in their order.
C5_CombinedPartition ==
    AllReturned =>
        /\ DOMAIN allData.byYear = YearSet
        /\ Len(allData.combined) = SumLen(allData.byYear, 1)
        /\ \A y \in YearSet : OfYear(allData.combined, y) = allData.byYear[y]

C5_Witness ==
    /\ AllReturned
    /\ \E y1, y2 \in YearSet :
          /\ y1 # y2
          /\ allData.byYear[y1] # <<>>
          /\ allData.byYear[y2] # <<>>
          /\ Len(allData.combined) >= 3

\* a step in which the page calls loadYearData
CallStep == op.st # "running" /\ nOps' = nOps + 1

\* C6: loadYearData of a year the year cache holds returns the stored
\* sequence, sends no fetch and no geocoder request, and leaves the year
\* cache, the geocode cache and the storage as they were.
C6_CacheHit ==
    [][CallStep =>
        /\ \A y \in DOMAIN cache :
              (op'.kind = "all" \/ op'.year = y) =>
                  /\ ld'[y].pc = "ok"
                  /\ ld'[y].out = cache[y]
                  /\ ld'[y].log = <<>>
        /\ op'.kind = "year" /\ op'.year \in DOMAIN cache =>
              /\ op'.st = "returned"
              /\ op'.result = cache[op'.year]
        /\ outstanding' = outstanding
        /\ cache' = cache
        /\ geocodeCache' = geocodeCache
        /\ storage' = storage]_vars

C6_Witness ==
    /\ op.kind = "year"
    /\ op.st = "returned"
    /\ op.year \in DOMAIN cache
    /\ op.result = cache[op.year]
    /\ op.result # <<>>
    /\ ld[op.year].rows = <<>>

\* C7: a single-year loadYearData whose fetch fails rejects and leaves the
\* year cache without an entry for the year, and the next loadYearData of a
\* year without an entry fetches.
C7_FailedLoadNotCached ==
    /\ [](op.kind = "year" /\ op.st = "rejected" => op.year \notin DOMAIN cache)
    /\ [][/\ (op.kind = "year" /\ ld[op.year].pc = "fetch" /\ ld'[op.year].pc = "err")
             => op'.st = "rejected" /\ cache' = cache
          /\ (CallStep /\ op'.kind = "year" /\ op'.year \notin DOMAIN cache)
             => ld'[op'.year].pc = "fetch" /\ op'.st = "running"]_vars

C7_Witness ==
    /\ op.kind = "year"
    /\ op.st = "rejected"
    /\ nOps = 1
    /\ cache = EmptyMap

\* every record a loadYearData has produced so far
Produced == UNION {{ld[y].out[k] : k \in 1..Len(ld[y].out)} : y \in YearSet}

\* C8: in every record processData produces, a truthy hasClientLocation
\* comes with client coordinates and a truthy hasPropertyLocation with
\* property coordinates; with a falsy flag the coordinate is null.
C8_FlagImpliesCoords ==
    \A r \in Produced :
        /\ Truthy(r.hasClientLocation) <=> r.clientCoords.some
        /\ Truthy(r.hasPropertyLocation) <=> r.propertyCoords.some

\* C9: a year's rows are geocoded in file order and one lookup at a time:
\* at most one request of the year is outstanding, only the latest lookup
\* can be unfinished, the lookups follow the rows (client before property),
\* none is for a row after the one being built, and the output keeps the
\* file order.
C9_SequentialLookups ==
    \A y \in YearSet :
        LET t == ld[y] IN
        /\ Cardinality({r \in outstanding : r.y = y}) <= 1
        /\ \A k \in 1..Len(t.log) :
              /\ t.log[k].open => k = Len(t.log) /\ t.pc = "geo"
              /\ t.log[k].open =>
                    \E r \in outstanding :
                        r.y = y /\ r.i = t.log[k].i /\ r.field = t.log[k].field
              /\ t.log[k].i <= Len(t.out) + 1
              /\ t.log[k].open => t.log[k].i = Len(t.out) + 1
        /\ \A j, k \in 1..Len(t.log) :
              j < k => \/ t.log[j].i < t.log[k].i
                       \/ /\ t.log[j].i = t.log[k].i
                          /\ t.log[j].field = "client"
                          /\ t.log[k].field = "property"
        /\ t.rows # <<>> =>
              NamesOf(t.out) = SubSeq(NamesOf(t.rows), 1, Len(t.out))

C9_Witness ==
    \E y \in YearSet :
        /\ Len(ld[y].log) >= 2
        /\ ld[y].log[1].i < ld[y].log[2].i
        /\ ld[y].log[1].ext
        /\ ld[y].log[2].open

\* C10: between two clearCache calls a key of the geocode cache keeps its
\* value.
C10_AppendOnly ==
    [][(nClears' = nClears /\ nReloads' = nReloads) =>
        \A k \in DOMAIN geocodeCache :
            k \in DOMAIN geocodeCache' /\ geocodeCache'[k] = geocodeCache[k]]_vars

\* C11: two overlapping loadYearData(Y) calls for an uncached year are
\* harmless: when both have returned, they have returned equal record
\* sequences, and the year cache entry for Y, while there, is that sequence.
C11_RaceHarmless ==
    \A p \in raced :
        LET a == calls[p[1]]
            b == calls[p[2]]
        IN a.st = "returned" /\ b.st = "returned" =>
              /\ a.tasks[a.year].out = b.tasks[b.year].out
              /\ a.year \in DOMAIN cache => cache[a.year] = a.tasks[a.year].out

\* the years a selection shows
ShownYears(sel) == IF sel = "all" THEN YearSet ELSE {sel}

\* C12: the load that refreshData triggers fetches the file of every year
\* of the current selection, a single year or 'all', whatever the year cache
\* held before the refresh.
C12_RefreshRefetches ==
    [][refreshes' # refreshes =>
          \A y \in ShownYears(dash.currentYear) :
              calls'[Len(calls')].tasks[y].pc = "fetch"]_vars

ResolvedAnswerFor(y) ==
    /\ ld[y].pc = "geo"
    /\ Len(ld'[y].log) >= Len(ld[y].log)
    /\ ~ld'[y].log[Len(ld[y].log)].open
    /\ ld'[y].log[Len(ld[y].log)].ext
    /\ ld'[y].log[Len(ld[y].log)].ret.some

\* C14: a DataLoader constructed over a storage item that is absent or
\* cannot be read or parsed starts with an empty geocode cache; and when
\* the persist after a geocode write fails, geocodeAddress still returns the
\* resolved coordinate and keeps it in the geocode cache, and the load that
\* awaits it does not fail.
C14_StorageFailuresContained ==
    /\ (storage.kind # "entries" => geocodeCache = EmptyMap)
    /\ [][/\ (nReloads' # nReloads /\ storage.kind # "entries")
                => geocodeCache' = EmptyMap /\ op' = NoOp
          /\ \A y \in YearSet :
                (ResolvedAnswerFor(y) /\ ~storageWorks) =>
                    LET e == ld'[y].log[Len(ld[y].log)]
                    IN /\ e.ret = ServiceCoords(LookupAddress(ld[y]))
                       /\ e.key \in DOMAIN geocodeCache'
                       /\ geocodeCache'[e.key] = e.ret
                       /\ storage' = storage
                       /\ ld'[y].pc # "err"
                       /\ op'.st # "rejected"]_vars

C14_Witness ==
    /\ nReloads = 1
    /\ storage = CorruptItem
    /\ ~storageWorks
    /\ \E y \in YearSet : \E k \in 1..Len(ld[y].log) :
          /\ ld[y].log[k].ext
          /\ ld[y].log[k].ret.some
          /\ ld[y].log[k].key \in DOMAIN geocodeCache
          /\ geocodeCache[ld[y].log[k].key] = ld[y].log[k].ret
          /\ ld[y].pc = "ok"

\* C15: while every persist succeeds, the storage item holds the whole
\* geocode cache: loading it gives a map with the same keys and the same
\* value for every key, and the DataLoader constructed at the next page
\* load starts with exactly that map.
C15_PersistRoundTrip ==
    /\ [](storageWorks => loadGeocodeCache(storage) = geocodeCache)
    /\ [][(storageWorks /\ nReloads' # nReloads) =>
              /\ DOMAIN geocodeCache' = DOMAIN geocodeCache
              /\ \A k \in DOMAIN geocodeCache : geocodeCache'[k] = geocodeCache[k]]_vars

C15_Witness ==
    /\ nReloads = 1
    /\ op = NoOp
    /\ storageWorks
    /\ storage.kind = "entries"
    /\ Cardinality(DOMAIN geocodeCache) >= 2
    /\ \E k \in DOMAIN geocodeCache : geocodeCache[k].some

\* a column that is present and not empty after trimming
NonBlank(v) == v.t = "string" /\ \E i \in 1..Len(v.s) : ~IsSpace(v.s[i])

\* the rows with a name, in their order
RECURSIVE Named(_)
Named(rawData) ==
    IF rawData = <<>> THEN <<>>
    ELSE IF NonBlank(Head(rawData).Name)
    THEN <<Head(rawData)>> \o Named(Tail(rawData))
    ELSE Named(Tail(rawData))

\* year y's file has been fetched and processed by the call that stands in ld
Processed(y) == ld[y].pc \in {"geo", "ok"} /\ ld[y].rows # <<>>

\* C16: in every record of processData, hasClientLocation holds exactly when
\* the row's Address is present, not empty after trimming and not 'No
\* address in contract', and hasPropertyLocation exactly when the row's
\* Property Purchased is present, not empty after trimming and not that
\* literal.
C16_LocationFlags ==
    \A y \in YearSet :
        Processed(y) =>
            /\ Len(ld[y].rows) = Len(Named(files[y]))
            /\ \A k \in 1..Len(ld[y].rows) :
                  LET rec == ld[y].rows[k]
                      row == Named(files[y])[k]
                  IN /\ Truthy(rec.hasClientLocation) <=>
                            (NonBlank(row.Address)
                             /\ row.Address.s # NoAddressInContract)
                     /\ Truthy(rec.hasPropertyLocation) <=>
                            (NonBlank(row.Property)
                             /\ row.Property.s # NoAddressInContract)

\* the type the two flags give
TypeOfFlags(c, p) ==
    CASE c /\ p -> "both"
      [] c /\ ~p -> "client-only"
      [] ~c /\ p -> "skip"
      [] ~c /\ ~p -> "skip"

\* C17: mapDisplayType of every record is given by its two location flags:
\* both give 'both', the client flag alone 'client-only', the property flag
\* alone 'skip', neither 'skip'.
C17_DisplayTypeByFlags ==
    \A y \in YearSet :
        /\ \A k \in 1..Len(ld[y].rows) :
              ld[y].rows[k].mapDisplayType =
                  TypeOfFlags(Truthy(ld[y].rows[k].hasClientLocation),
                              Truthy(ld[y].rows[k].hasPropertyLocation))
        /\ \A k \in 1..Len(ld[y].out) :
              ld[y].out[k].mapDisplayType =
                  TypeOfFlags(Truthy(ld[y].out[k].hasClientLocation),
                              Truthy(ld[y].out[k].hasPropertyLocation))

C17_Witness ==
    \E y \in YearSet :
        /\ ld[y].pc = "ok"
        /\ Len(ld[y].out) = 2
        /\ ld[y].out[1].mapDisplayType = "both"
        /\ ld[y].out[2].mapDisplayType = "skip"
        /\ Truthy(ld[y].out[2].hasPropertyLocation)
        /\ ~Truthy(ld[y].out[2].hasClientLocation)

\* C18: in every record the pipeline has produced, isInterstate holds if and
\* only if clientState and propertyState are both other than 'Unknown' and
\* differ.
C18_InterstateIffKnownAndDiffer ==
    \A r \in Produced :
        r.isInterstate <=>
            /\ r.clientState # "Unknown"
            /\ r.propertyState # "Unknown"
            /\ r.clientState # r.propertyState

C18_Witness ==
    \E y \in YearSet :
        /\ ld[y].pc = "ok"
        /\ Len(ld[y].out) = 2
        /\ ld[y].out[1].isInterstate
        /\ ~ld[y].out[2].isInterstate
        /\ ld[y].out[2].clientState # "Unknown"
        /\ ld[y].out[2].clientState = ld[y].out[2].propertyState

\* the keys under which the addresses of rows are looked up
AddressKeys(rawData) ==
    {toLowerCase(cleanAddress(rawData[k].Address)) : k \in 1..Len(rawData)}
    \cup {toLowerCase(cleanAddress(rawData[k].Property)) : k \in 1..Len(rawData)}

\* the records are those of the rows with a name, in the rows' order
RecordsOfNamed(data, rawData) ==
    /\ Len(data) = Len(Named(rawData))
    /\ \A k \in 1..Len(data) :
          /\ data[k].name = trim(Named(rawData)[k].Name.s)
          /\ data[k].name # <<>>

\* C19: processData drops exactly the rows whose Name is absent, empty or
\* white space: its records are those of the other rows, one a row and in
\* the rows' order, each with a name that is not empty; no geocoder lookup
\* is made for a dropped row, and the load does not fail.
C19_DropsNamelessRows ==
    \A y \in YearSet :
        /\ ld[y].pc = "geo" => RecordsOfNamed(ld[y].rows, files[y])
        /\ ld[y].pc = "ok" => RecordsOfNamed(ld[y].out, files[y])
        /\ \A k \in 1..Len(ld[y].log) :
              ld[y].log[k].key \in AddressKeys(Named(files[y]))
        /\ \A r \in outstanding :
              r.y = y => toLowerCase(r.address) \in AddressKeys(Named(files[y]))
        /\ ld[y].pc # "err"

C19_Witness ==
    \E y \in YearSet :
        /\ ld[y].pc = "ok"
        /\ Len(files[y]) = 2
        /\ files[y][1] = RowNoNameVic
        /\ Len(ld[y].out) = 1
        /\ ld[y].log # <<>>
        /\ ld[y].log[1].ext

\* a year field that is null
NoYear == ""

\* every record of data has year v
AllOfYear(data, v) == \A k \in 1..Len(data) : data[k].year = v

\* C20 (as stated): a record's year is set only by the multi-year load: the
\* records a single-year loadYearData returns, and those of the year cache
\* and of byYear, have no year, and every record of combined has one.
C20_YearOnlyInCombined ==
    /\ \A y \in DOMAIN cache : AllOfYear(cache[y], NoYear)
    /\ op.kind = "year" /\ op.st = "returned" => AllOfYear(op.result, NoYear)
    /\ \A y \in DOMAIN allData.byYear : AllOfYear(allData.byYear[y], NoYear)
    /\ \A k \in 1..Len(allData.combined) : allData.combined[k].year \in YearSet

\* C20 (amended): every record a load produces carries its year: the
\* records loadYearData(Y) returns, and those stored under Y in the year
\* cache and in byYear, have year Y, and every record of combined has the
\* year of the byYear sequence it comes from.
C20_EveryRecordHasItsYear ==
    /\ \A y \in DOMAIN cache : AllOfYear(cache[y], y)
    /\ op.kind = "year" /\ op.st = "returned" => AllOfYear(op.result, op.year)
    /\ \A y \in DOMAIN allData.byYear : AllOfYear(allData.byYear[y], y)
    /\ \A k \in 1..Len(allData.combined) :
          /\ allData.combined[k].year \in DOMAIN allData.byYear
          /\ \E j \in 1..Len(allData.byYear[allData.combined[k].year]) :
                allData.byYear[allData.combined[k].year][j] = allData.combined[k]

C20_Witness ==
    /\ AllReturned
    /\ Len(allData.combined) >= 3
    /\ \E y \in DOMAIN cache : cache[y] # <<>> /\ allData.byYear[y] = cache[y]

\* key occurs in s when the case of letters is ignored
OccursIn(s, key) ==
    \E i \in 0..(Len(s) - Len(key)) :
        \A j \in 1..Len(key) :
            toLowerCase(<<s[i + j]>>) = toLowerCase(<<key[j]>>)

\* the region the fixed order gives an address
RegionOf(s) ==
    IF \E k \in 1..Len(StateKeys) : OccursIn(s, StateChars[k])
    THEN StateKeys[CHOOSE k \in 1..Len(StateKeys) :
            /\ OccursIn(s, StateChars[k])
            /\ \A j \in 1..(k - 1) : ~OccursIn(s, StateChars[j])]
    ELSE IF OccursIn(s, SingaporeChars) THEN "Singapore"
    ELSE IF OccursIn(s, DubaiChars) THEN "Dubai"
    ELSE "Unknown"

\* C21: the state extractState gives an address is the first of NSW, QLD,
\* VIC, SA, WA, TAS, NT, ACT that occurs in it in any case and at any
\* position; with none of them it is Singapore if 'singapore' occurs, else
\* Dubai if 'dubai' occurs, else Unknown.
C21_FirstRegionInOrder ==
    \A y \in YearSet :
        Processed(y) =>
            \A k \in 1..Len(ld[y].rows) :
                LET rec == ld[y].rows[k]
                    row == Named(files[y])[k]
                IN /\ Truthy(rec.hasClientLocation) =>
                        rec.clientState = RegionOf(row.Address.s)
                   /\ Truthy(rec.hasPropertyLocation) =>
                        rec.propertyState = RegionOf(row.Property.s)

\* an address with WA before NSW in the text is in NSW
C21_Witness ==
    \E y \in YearSet :
        /\ Processed(y)
        /\ files[y][1].Address = JStr(<<"w", "a", " ", "N", "S", "W">>)
        /\ ld[y].rows[1].clientState = "NSW"

(***************************************************************************)
(* generateAnalytics.                                                      *)
(***************************************************************************)
\* the records that have region as their client state, as their property state
ClientsIn(region) ==
    {k \in 1..Len(records) : records[k].clientState = region}
PropertiesIn(region) ==
    {k \in 1..Len(records) : records[k].propertyState = region}

RECURSIVE SumClients(_)
SumClients(rs) ==
    IF rs = <<>> THEN 0 ELSE Head(rs).clients + SumClients(Tail(rs))

\* C22: generateAnalytics returns totalClients = the number of records,
\* totalProperties = the number of records with a non-empty propertyAddress,
\* interstateSales = the number of records with isInterstate, and a
\* regionStats with one entry for each region that occurs, whose clients is
\* the number of records having the region as clientState and whose
\* properties is the number having it as propertyState, 'Unknown' never
\* being counted as a property region; the clients counts sum to totalClients.
C22_CountsAndRegions ==
    analytics.done =>
        /\ analytics.totalClients = Len(records)
        /\ analytics.totalProperties
              = Cardinality({k \in 1..Len(records) :
                                records[k].propertyAddress # <<>>})
        /\ analytics.interstateSales
              = Cardinality({k \in 1..Len(records) : records[k].isInterstate})
        /\ \A i, j \in 1..Len(analytics.regionStats) :
              analytics.regionStats[i].region = analytics.regionStats[j].region
                  => i = j
        /\ {analytics.regionStats[j].region :
                j \in 1..Len(analytics.regionStats)}
              = {records[k].clientState : k \in 1..Len(records)}
                \cup ({records[k].propertyState : k \in 1..Len(records)}
                         \ {"Unknown", ""})
        /\ \A j \in 1..Len(analytics.regionStats) :
              /\ analytics.regionStats[j].clients
                    = Cardinality(ClientsIn(analytics.regionStats[j].region))
              /\ analytics.regionStats[j].properties
                    = IF analytics.regionStats[j].region = "Unknown" THEN 0
                      ELSE Cardinality(
                               PropertiesIn(analytics.regionStats[j].region))
        /\ SumClients(analytics.regionStats) = analytics.totalClients

\* analytics of three records: one without any address (both states
\* 'Unknown'), one interstate purchase, and a client of a third region
C22_Witness ==
    /\ analytics.done
    /\ Len(records) = MaxRecords
    /\ ClientsIn("Unknown") # {}
    /\ PropertiesIn("Unknown") # {}
    /\ \E k \in 1..Len(records) : records[k].isInterstate
    /\ Len(analytics.regionStats) >= 3

\* the first mention of a region while the records are scanned in order: a
\* record mentions its client state before its property state
FirstMention(region) ==
    CHOOSE p \in 1..(2 * Len(records)) :
        /\ \/ p \in {2 * k - 1 : k \in ClientsIn(region)}
           \/ region # "Unknown" /\ p \in {2 * k : k \in PropertiesIn(region)}
        /\ \A q \in 1..(p - 1) :
              /\ q \notin {2 * k - 1 : k \in ClientsIn(region)}
              /\ region = "Unknown" \/ q \notin {2 * k : k \in PropertiesIn(region)}

\* clients + properties of a region, counted over the records
TotalIn(region) ==
    Cardinality(ClientsIn(region))
        + (IF region = "Unknown" THEN 0 ELSE Cardinality(PropertiesIn(region)))

\* the regions of the records
RegionsIn ==
    {records[k].clientState : k \in 1..Len(records)}
        \cup ({records[k].propertyState : k \in 1..Len(records)} \ {"Unknown", ""})

\* C23: topRegion is a region with the maximum clients + properties; among
\* the regions that tie for the maximum it is the one mentioned first while
\* the records are scanned in order; it is 'N/A' exactly when there is no
\* record.
C23_TopRegionFirstMaximum ==
    analytics.done =>
        /\ analytics.topRegion = "N/A" <=> records = <<>>
        /\ records # <<>> =>
              /\ analytics.topRegion \in RegionsIn
              /\ \A r \in RegionsIn : TotalIn(r) <= TotalIn(analytics.topRegion)
              /\ \A r \in RegionsIn :
                    TotalIn(r) = TotalIn(analytics.topRegion)
                        => FirstMention(analytics.topRegion) <= FirstMention(r)

\* two regions tie for the maximum, the top region is not that of the first
\* record, and it was mentioned before the region it ties with
C23_Witness ==
    /\ analytics.done
    /\ records # <<>>
    /\ analytics.topRegion # records[1].clientState
    /\ \E r \in RegionsIn :
          /\ r # analytics.topRegion
          /\ TotalIn(r) = TotalIn(analytics.topRegion)
          /\ FirstMention(analytics.topRegion) < FirstMention(r)

\* the records with a property address, and the interstate records
WithProperty == {k \in 1..Len(records) : records[k].propertyAddress # <<>>}
Interstate == {k \in 1..Len(records) : records[k].isInterstate}

LoadShown(n) ==
    /\ Len(calls) >= n
    /\ calls[n].st # "running"
    /\ ~dash.isLoading
    /\ \/ calls[n].st = "returned" /\ dash.currentData = DataOf(calls[n])
       \/ calls[n].st = "rejected" /\ dash.error = calls[n].year

\* C25: when every fetch, parse and geocoding callback settles, every
\* loadYear that has passed the isLoading guard and awaits its data ends:
\* isLoading is false again and the Dashboard has stored the call's data as
\* currentData or shows the error state.
C25_LoadEnds ==
    \A n \in 1..MaxCalls :
        (Len(calls) >= n /\ calls[n].st = "running") ~> LoadShown(n)

\* a load of all the years that waited for the geocoding service has ended
\* with a failed year, and a second load has ended, too
C25_Witness ==
    /\ Len(calls) = 2
    /\ LoadShown(2)
    /\ calls[1].st # "running"
    /\ \E n \in 1..2 :
          /\ calls[n].year = "all"
          /\ \E z \in YearSet : calls[n].tasks[z].pc = "err"
          /\ \E z \in YearSet : calls[n].tasks[z].out # <<>>

(***************************************************************************)
(* Rate limiting during a load of all the years.                           *)
(***************************************************************************)
\* C26: while loadAllYearsData is running, at most one request to the
\* geocoding service is outstanding, over all the years it processes.
C26_OneRequestAcrossYears ==
    (op.kind = "all" /\ op.st = "running") => Cardinality(outstanding) <= 1

(***************************************************************************)
(* The Dashboard's current year and current data.                          *)
(***************************************************************************)
\* the calls of the Dashboard that loaded selection sel and returned data
ReturnedFor(sel) ==
    {n \in 1..Len(calls) : calls[n].year = sel /\ calls[n].st = "returned"}

\* C27: whenever the Dashboard is not loading and currentData is not null,
\* currentData is what a load of currentYear returned, so what is exported
\* or displayed under currentYear are that year's records.
C27_DataOfCurrentYear ==
    (~dash.isLoading /\ dash.currentData # NullData) =>
        /\ dash.currentYear # ""
        /\ \E n \in ReturnedFor(dash.currentYear) :
              dash.currentData = DataOf(calls[n])

\* the loads that are awaiting their data
Awaiting == {n \in 1..Len(calls) : calls[n].st = "running"}

\* C28: at most one load of the Dashboard is in flight, and isLoading is
\* true in every state where a loadYear awaits its data; so no step starts a
\* load, or changes currentYear, currentData or a cached year through a
\* request, while one is awaited.
C28_OneLoadInFlight ==
    /\ [](Cardinality(Awaiting) <= 1 /\ (Awaiting # {} => dash.isLoading))
    /\ [][Awaiting # {} => Len(calls') = Len(calls)]_vars

(***************************************************************************)
(* Clearing the caches.                                                    *)
(***************************************************************************)
\* C29: after reset() (which calls clearCache) the year cache, the geocode
\* cache and the stored geocode entry are empty, and they stay empty as long
\* as no load is started after the reset: a load that was in flight at the
\* reset does not put its result back.
C29_ClearedStaysEmpty ==
    (stale # {} /\ stale = 1..Len(calls)) =>
        /\ cache = EmptyMap
        /\ geocodeCache = EmptyMap
        /\ storage = NoItem

(***************************************************************************)
(* The markers of the all-years view.                                      *)
(***************************************************************************)
\* a marker of the given type is tracked for client on the map of year y
Tracked(client, y, type, position) ==
    \E j \in 1..Len(mapsManager.markers) :
        mapsManager.markers[j]
            = [map |-> y, name |-> client.name, type |-> type,
               position |-> position]

\* C30: after updateMultipleMaps(allData) has finished, for every year
\* that has a map the tracked markers include a client marker for each
\* record of byYear[year] that is not of type 'skip' and has client
\* coordinates, and a property marker for each record of type 'both' with
\* property coordinates.
C30_MarkersOfEveryYear ==
    drawn.done =>
        \A y \in mapsManager.yearMaps :
            \A k \in 1..Len(drawn.byYear[y]) :
                /\ (drawn.byYear[y][k].mapDisplayType # "skip"
                    /\ drawn.byYear[y][k].clientCoords.some)
                      => Tracked(drawn.byYear[y][k], y, "Client",
                                 drawn.byYear[y][k].clientCoords)
                /\ (drawn.byYear[y][k].mapDisplayType = "both"
                    /\ drawn.byYear[y][k].propertyCoords.some)
                      => Tracked(drawn.byYear[y][k], y, "Property",
                                 drawn.byYear[y][k].propertyCoords)
=============================================================================
